---- MODULE Spec2Model ----
(***************************************************************************)
(* Model of script_translator.py: GameTranslator.translate(), its two      *)
(* stages (whisper_cpp_transcription, llama_translation), the command-line *)
(* entry point main(), and the environment they act on: the two external   *)
(* processes started with subprocess.run, the file system and the clock.   *)
(*                                                                         *)
(* Strings are sequences of one-character strings, so that str.replace,    *)
(* str.strip, str.lower and the f-string of the prompt are computed.       *)
(***************************************************************************)
EXTENDS Integers, Sequences, FiniteSets, TLC

VARIABLES
    entry,        \* "main": run from the command line; "api": translate() called on an object
    args,         \* the arguments given to main() / GameTranslator(...)
    self,         \* the GameTranslator object's fields
    pc,           \* position of the single thread of control
    now,          \* time.time()
    start_time,   \* local of translate()
    text,         \* local of translate(): the transcription stage's return value
    translation,  \* local of translate(): the translation stage's return value
    result,       \* return value of translate()
    returned,     \* TRUE once translate() has returned
    raised,       \* the exception propagating out of translate(), or NoException
    whisper,      \* the external transcription process
    ollama,       \* the external translation process
    fs,           \* file system: path -> content
    reads,        \* number of open(result_file) calls
    llamaCalls,   \* number of calls of llama_translation
    elapsedWrites,\* number of assignments to self.elapsed_time in translate()
    stdout,       \* what the program printed
    exitStatus    \* exit status of the process, -1 while it runs

vars == <<entry, args, self, pc, now, start_time, text, translation, result, returned, raised, whisper,
          ollama, fs, reads, llamaCalls, elapsedWrites, stdout, exitStatus>>

-----------------------------------------------------------------------------
(* Bounds *)

MaxTime == 2

-----------------------------------------------------------------------------
(* Strings *)

Str_wav_txt == <<".", "w", "a", "v", ".", "t", "x", "t">>
Str_txt == <<".", "t", "x", "t">>
Str_a_wav == <<"a", ".", "w", "a", "v">>
Str_a_wav_txt == Str_a_wav \o Str_txt

IsSpace(c) == c \in {" ", "\n", "\t"}

RECURSIVE LStrip(_)
LStrip(s) == IF s = <<>> THEN <<>>
             ELSE IF IsSpace(Head(s)) THEN LStrip(Tail(s)) ELSE s

RECURSIVE RStrip(_)
RStrip(s) == IF s = <<>> THEN <<>>
             ELSE IF IsSpace(s[Len(s)]) THEN RStrip(SubSeq(s, 1, Len(s) - 1)) ELSE s

\* str.strip()
Strip(s) == RStrip(LStrip(s))

LowerChar(c) ==
    CASE c = "R" -> "r"
      [] c = "U" -> "u"
      [] c = "E" -> "e"
      [] c = "N" -> "n"
      [] OTHER -> c

\* str.lower()
Lower(s) == [i \in 1..Len(s) |-> LowerChar(s[i])]

StartsWith(s, p) == Len(s) >= Len(p) /\ SubSeq(s, 1, Len(p)) = p

\* str.replace(old, new): every non-overlapping occurrence, left to right
RECURSIVE Replace(_, _, _)
Replace(s, old, new) ==
    IF s = <<>> THEN <<>>
    ELSE IF StartsWith(s, old)
         THEN new \o Replace(SubSeq(s, Len(old) + 1, Len(s)), old, new)
         ELSE <<Head(s)>> \o Replace(Tail(s), old, new)

-----------------------------------------------------------------------------
(* Inputs and environment *)

FilePaths == {Str_a_wav, Str_a_wav_txt}
Engines == {"whisper_cpp", "unknown_engine"}
EngineChoices == {"whisper_cpp"}
InputLanguages == {<<"E", "N">>}
OutputLanguages == {<<"R", "U">>, <<"e", "n">>}

Missing == [kind |-> "missing", data |-> <<>>]
Binary == [kind |-> "binary", data |-> <<>>]
TextFile(t) == [kind |-> "text", data |-> t]

\* what the audio file holds when opened in text mode
AudioContents == {Binary, TextFile(<<"R", "I", "F", "F", " ">>)}
\* what a file left at another path by an earlier run may hold
StaleContents == {TextFile(<<" ", "O", "l", "d", "\n">>), TextFile(<<" ", "\n">>)}
WhisperTexts == {<<>>, <<" ", "\n">>, <<"H", "i">>, <<" ", "H", " ", "w", "\n">>}
OllamaOutputs == {<<>>, <<"P", "r", "\n">>, <<"\n">>}
ExitCodes == {0, 1}

LastDot(s) == IF \E i \in 1..Len(s) : s[i] = "."
              THEN CHOOSE i \in 1..Len(s) : s[i] = "." /\ \A j \in (i+1)..Len(s) : s[j] # "."
              ELSE Len(s) + 1
Stem(s) == SubSeq(s, 1, LastDot(s) - 1)

\* where the external engine, run with -otxt, writes its text: next to the
\* audio file, named after the audio file or after its base name
WhisperOutputPaths(filepath) == {filepath \o Str_txt, Stem(filepath) \o Str_txt}

\* line 87
ResultFile(filepath) == Replace(filepath, Str_wav_txt, Str_txt)

AllPaths == UNION {{p, ResultFile(p)} \cup WhisperOutputPaths(p) : p \in FilePaths}

NotSpawned == [state |-> "notspawned", hangs |-> FALSE, code |-> -1,
               command |-> <<>>, out |-> <<>>, wrote |-> <<>>]
NoException == [type |-> "None", at |-> "none"]
Exception(t, a) == [type |-> t, at |-> a]
Unconstructed == [constructed |-> FALSE]

-----------------------------------------------------------------------------
(* GameTranslator *)

\* __init__
GameTranslatorInit(transcription_model, filepath, prerecorded, input_language, output_language) ==
    [constructed |-> TRUE,
     pre_recorded |-> prerecorded,
     transcription_model |-> transcription_model,
     filepath |-> filepath,
     input_language |-> Lower(input_language),
     output_language |-> Lower(output_language),
     elapsed_time |-> 0]

\* line 145
EngineSupportedAny(model) == TRUE
EngineSupported(model) == model = "whisper_cpp"

\* line 81
LiveCaptureNever(obj) == FALSE
LiveCaptureRequested(obj) == ~obj.pre_recorded

\* lines 90-96
WhisperCommand(obj) ==
    <<"./whisper.cpp/main", "-m", "./whisper.cpp/models/ggml-base.en.bin",
      "-f", obj.filepath, "-l", obj.input_language, "-otxt">>

\* line 101: the except clause of the transcription stage
CaughtByTranscriptionAll(e) == TRUE
CaughtByTranscription(e) == e = "CalledProcessError"

\* line 128: the except clause of the translation stage
CaughtByTranslationAll(e) == TRUE
CaughtByTranslation(e) == e = "CalledProcessError"

\* lines 116-119
LlamaCommandInputLanguage(obj, t) ==
    <<"ollama", "run", "llama3",
      <<"Translate the following text to ">> \o obj.input_language \o <<": ">> \o t>>
LlamaCommand(obj, t) ==
    <<"ollama", "run", "llama3",
      <<"Translate the following text to ">> \o obj.output_language \o <<": ">> \o t>>

\* line 150: `not text`
TextIsEmptyNever(t) == FALSE
TextIsEmpty(t) == t = <<>>

\* subprocess.run returns only once the child has exited
ProcessExitedOrTimedOut(p) == p.state \in {"running", "exited"}
ProcessExited(p) == p.state = "exited"

Running(p) == p.state = "running"

-----------------------------------------------------------------------------
Init ==
    /\ entry \in {"main", "api"}
    /\ args \in [transcription_model : Engines,
                 file : FilePaths,
                 pre_recorded : BOOLEAN,
                 input_language : InputLanguages,
                 output_language : OutputLanguages]
    /\ self = Unconstructed
    /\ pc = "start"
    /\ now = 0
    /\ start_time = 0
    /\ text = <<>>
    /\ translation = <<>>
    /\ result = <<>>
    /\ returned = FALSE
    /\ raised = NoException
    /\ whisper = NotSpawned
    /\ ollama = NotSpawned
    /\ fs \in {f \in [AllPaths -> AudioContents \cup StaleContents \cup {Missing}] :
                 /\ f[args.file] \in AudioContents
                 /\ \A p \in AllPaths \ {args.file} : f[p] \in StaleContents \cup {Missing}}
    /\ reads = 0
    /\ llamaCalls = 0
    /\ elapsedWrites = 0
    /\ stdout = <<>>
    /\ exitStatus = -1

-----------------------------------------------------------------------------
(* Output *)

Line(tag, value) == [line |-> tag, value |-> value]
Printed(l) == Append(stdout, l)

-----------------------------------------------------------------------------
(* main(), lines 161-209: parse the arguments and construct the translator *)

Main ==
    /\ entry = "main"
    /\ pc = "start"
    /\ IF args.transcription_model \in EngineChoices
       THEN /\ self' = GameTranslatorInit(args.transcription_model, args.file,
                                          args.pre_recorded, args.input_language,
                                          args.output_language)
            /\ pc' = "translate"
            /\ UNCHANGED exitStatus
       ELSE \* argparse rejects the value: usage error, status 2
            /\ pc' = "exited"
            /\ exitStatus' = 2
            /\ UNCHANGED self
    /\ UNCHANGED <<entry, args, now, start_time, text, translation, result, returned,
                   raised, whisper, ollama, fs, reads, llamaCalls, elapsedWrites, stdout>>

(* a caller constructs GameTranslator itself and calls translate() *)
Construct ==
    /\ entry = "api"
    /\ pc = "start"
    /\ self' = GameTranslatorInit(args.transcription_model, args.file, args.pre_recorded,
                                  args.input_language, args.output_language)
    /\ pc' = "translate"
    /\ UNCHANGED <<entry, args, now, start_time, text, translation, result, returned,
                   raised, whisper, ollama, fs, reads, llamaCalls, elapsedWrites, stdout,
                   exitStatus>>

-----------------------------------------------------------------------------
(* translate(), lines 141-148 *)

TranslateBegin ==
    /\ pc = "translate"
    /\ start_time' = now
    /\ stdout' = Printed(Line("translator_info", <<>>))
    /\ IF EngineSupported(self.transcription_model)
       THEN /\ pc' = "transcribe"
            /\ UNCHANGED raised
       ELSE /\ pc' = "raised"
            /\ raised' = Exception("ValueError", "translate")
    /\ UNCHANGED <<entry, args, self, now, text, translation, result, returned, whisper,
                   ollama, fs, reads, llamaCalls, elapsedWrites, exitStatus>>

(* whisper_cpp_transcription(), lines 81-98: up to the start of the child *)
WhisperSpawn ==
    /\ pc = "transcribe"
    /\ IF LiveCaptureRequested(self)
       THEN /\ pc' = "raised"
            /\ raised' = Exception("NotImplementedError", "whisper_cpp_transcription")
            /\ UNCHANGED <<whisper, text, stdout>>
       ELSE \E spawned \in BOOLEAN, hangs \in BOOLEAN :
              IF spawned
              THEN /\ whisper' = [NotSpawned EXCEPT !.state = "running", !.hangs = hangs,
                                                    !.command = WhisperCommand(self)]
                   /\ pc' = "whisper_wait"
                   /\ UNCHANGED <<raised, text, stdout>>
              ELSE \* the executable cannot be started: subprocess.run raises
                   /\ hangs = FALSE
                   /\ whisper' = [NotSpawned EXCEPT !.state = "spawnfailed",
                                                    !.command = WhisperCommand(self)]
                   /\ IF CaughtByTranscription("FileNotFoundError")
                      THEN /\ text' = <<>>
                           /\ stdout' = Printed(Line("transcription_error", <<>>))
                           /\ pc' = "check"
                           /\ UNCHANGED raised
                      ELSE /\ raised' = Exception("FileNotFoundError", "whisper_spawn")
                           /\ pc' = "raised"
                           /\ UNCHANGED <<text, stdout>>
    /\ UNCHANGED <<entry, args, self, now, start_time, translation, result, returned,
                   ollama, fs, reads, llamaCalls, elapsedWrites, exitStatus>>

(* the transcription engine exits; with status 0 it may have written its text *)
WhisperExit ==
    /\ Running(whisper)
    /\ ~whisper.hangs
    /\ \E code \in ExitCodes :
         \/ /\ whisper' = [whisper EXCEPT !.state = "exited", !.code = code]
            /\ UNCHANGED fs
         \/ /\ code = 0
            /\ \E p \in WhisperOutputPaths(self.filepath), t \in WhisperTexts :
                 /\ whisper' = [whisper EXCEPT !.state = "exited", !.code = code,
                                               !.out = t, !.wrote = p]
                 /\ fs' = [fs EXCEPT ![p] = TextFile(t)]
    /\ UNCHANGED <<entry, args, self, pc, now, start_time, text, translation, result,
                   returned, raised, ollama, reads, llamaCalls, elapsedWrites, stdout,
                   exitStatus>>

(* whisper_cpp_transcription(), lines 98-105: subprocess.run returns *)
WhisperReturn ==
    /\ pc = "whisper_wait"
    /\ ProcessExited(whisper)
    /\ IF whisper.code # 0
       THEN /\ UNCHANGED reads
            /\ IF CaughtByTranscription("CalledProcessError")
               THEN /\ text' = <<>>
                    /\ stdout' = Printed(Line("transcription_error", <<>>))
                    /\ pc' = "check"
                    /\ UNCHANGED raised
               ELSE /\ raised' = Exception("CalledProcessError", "whisper_run")
                    /\ pc' = "raised"
                    /\ UNCHANGED <<text, stdout>>
       ELSE /\ reads' = reads + 1
            /\ LET f == fs[ResultFile(self.filepath)]
                   e == IF f.kind = "missing" THEN "FileNotFoundError"
                        ELSE "UnicodeDecodeError"
               IN  IF f.kind = "text"
                   THEN /\ text' = Strip(f.data)
                        /\ pc' = "check"
                        /\ UNCHANGED <<raised, stdout>>
                   ELSE IF CaughtByTranscription(e)
                   THEN /\ text' = <<>>
                        /\ stdout' = Printed(Line("transcription_error", <<>>))
                        /\ pc' = "check"
                        /\ UNCHANGED raised
                   ELSE /\ raised' = Exception(e, "open_result_file")
                        /\ pc' = "raised"
                        /\ UNCHANGED <<text, stdout>>
    /\ UNCHANGED <<entry, args, self, now, start_time, translation, result, returned,
                   whisper, ollama, fs, llamaCalls, elapsedWrites, exitStatus>>

(* translate(), lines 150-152 *)
CheckText ==
    /\ pc = "check"
    /\ IF TextIsEmpty(text)
       THEN /\ stdout' = Printed(Line("transcription_failed", <<>>))
            /\ result' = <<>>
            /\ returned' = TRUE
            /\ pc' = "returned"
       ELSE /\ pc' = "translation"
            /\ UNCHANGED <<stdout, result, returned>>
    /\ UNCHANGED <<entry, args, self, now, start_time, text, translation, raised, whisper,
                   ollama, fs, reads, llamaCalls, elapsedWrites, exitStatus>>

(* llama_translation(), lines 116-126: up to the start of the child *)
LlamaSpawn ==
    /\ pc = "translation"
    /\ llamaCalls' = llamaCalls + 1
    /\ \E spawned \in BOOLEAN, hangs \in BOOLEAN :
         IF spawned
         THEN /\ ollama' = [NotSpawned EXCEPT !.state = "running", !.hangs = hangs,
                                              !.command = LlamaCommand(self, text)]
              /\ pc' = "llama_wait"
              /\ UNCHANGED <<raised, translation, stdout>>
         ELSE /\ hangs = FALSE
              /\ ollama' = [NotSpawned EXCEPT !.state = "spawnfailed",
                                              !.command = LlamaCommand(self, text)]
              /\ IF CaughtByTranslation("FileNotFoundError")
                 THEN /\ translation' = <<>>
                      /\ stdout' = Printed(Line("translation_error", <<>>))
                      /\ pc' = "finish"
                      /\ UNCHANGED raised
                 ELSE /\ raised' = Exception("FileNotFoundError", "ollama_spawn")
                      /\ pc' = "raised"
                      /\ UNCHANGED <<translation, stdout>>
    /\ UNCHANGED <<entry, args, self, now, start_time, text, result, returned, whisper,
                   fs, reads, elapsedWrites, exitStatus>>

(* the translation engine exits, having printed its answer *)
OllamaExit ==
    /\ Running(ollama)
    /\ ~ollama.hangs
    /\ \E code \in ExitCodes, out \in OllamaOutputs :
         ollama' = [ollama EXCEPT !.state = "exited", !.code = code, !.out = out]
    /\ UNCHANGED <<entry, args, self, pc, now, start_time, text, translation, result,
                   returned, raised, whisper, fs, reads, llamaCalls, elapsedWrites, stdout,
                   exitStatus>>

(* llama_translation(), lines 127-130: subprocess.run returns *)
LlamaReturn ==
    /\ pc = "llama_wait"
    /\ ProcessExited(ollama)
    /\ IF ollama.code = 0
       THEN /\ translation' = Strip(ollama.out)
            /\ pc' = "finish"
            /\ UNCHANGED <<raised, stdout>>
       ELSE IF CaughtByTranslation("CalledProcessError")
       THEN /\ translation' = <<>>
            /\ stdout' = Printed(Line("translation_error", <<>>))
            /\ pc' = "finish"
            /\ UNCHANGED raised
       ELSE /\ raised' = Exception("CalledProcessError", "ollama_run")
            /\ pc' = "raised"
            /\ UNCHANGED <<translation, stdout>>
    /\ UNCHANGED <<entry, args, self, now, start_time, text, result, returned, whisper,
                   ollama, fs, reads, llamaCalls, elapsedWrites, exitStatus>>

(* translate(), lines 156-159 *)
Finish ==
    /\ pc = "finish"
    /\ self' = [self EXCEPT !.elapsed_time = now - start_time]
    /\ elapsedWrites' = elapsedWrites + 1
    /\ stdout' = Printed(Line("elapsed_time", <<now - start_time>>))
    /\ result' = translation
    /\ returned' = TRUE
    /\ pc' = "returned"
    /\ UNCHANGED <<entry, args, now, start_time, text, translation, raised, whisper,
                   ollama, fs, reads, llamaCalls, exitStatus>>

-----------------------------------------------------------------------------
(* main(), lines 212-213, and the interpreter's handling of an uncaught exception *)

MainPrint ==
    /\ entry = "main"
    /\ pc = "returned"
    /\ stdout' = Printed(Line("translation_result", result))
    /\ exitStatus' = 0
    /\ pc' = "exited"
    /\ UNCHANGED <<entry, args, self, now, start_time, text, translation, result, returned,
                   raised, whisper, ollama, fs, reads, llamaCalls, elapsedWrites>>

MainUncaught ==
    /\ entry = "main"
    /\ pc = "raised"
    /\ exitStatus' = 1
    /\ pc' = "exited"
    /\ UNCHANGED <<entry, args, self, now, start_time, text, translation, result, returned,
                   raised, whisper, ollama, fs, reads, llamaCalls, elapsedWrites, stdout>>

-----------------------------------------------------------------------------
(* the clock *)

Terminated == \/ pc = "exited"
              \/ entry = "api" /\ pc \in {"returned", "raised"}

Tick ==
    /\ ~Terminated
    /\ now < MaxTime
    /\ now' = now + 1
    /\ UNCHANGED <<entry, args, self, pc, start_time, text, translation, result, returned,
                   raised, whisper, ollama, fs, reads, llamaCalls, elapsedWrites, stdout,
                   exitStatus>>

-----------------------------------------------------------------------------
Program == \/ Main
           \/ Construct
           \/ TranslateBegin
           \/ WhisperSpawn
           \/ WhisperReturn
           \/ CheckText
           \/ LlamaSpawn
           \/ LlamaReturn
           \/ Finish
           \/ MainPrint
           \/ MainUncaught

Next == \/ Program
        \/ WhisperExit
        \/ OllamaExit
        \/ Tick

Spec == Init /\ [][Next]_vars

(* Every step of the single thread is taken when it can be, and a child    *)
(* process that does not hang exits.                                       *)
LiveSpec == Init /\ [][Next]_vars /\ WF_vars(Program) /\ WF_vars(WhisperExit)
                 /\ WF_vars(OllamaExit)

-----------------------------------------------------------------------------
(* Vocabulary of the properties *)

NoProcessSpawned == whisper = NotSpawned /\ ollama = NotSpawned

\* whisper_cpp_transcription() has returned a value into `text`
TranscriptionReturned ==
    \/ pc \in {"check", "translation", "llama_wait", "finish"}
    \/ returned
    \/ raised.at \in {"ollama_spawn", "ollama_run"}

\* translate() is over: it returned or an exception left it
TranslateFinished == returned \/ raised # NoException

ProcessFailed(p) == p.state = "spawnfailed" \/ (p.state = "exited" /\ p.code # 0)

Hung(p) == Running(p) /\ p.hangs

ResultLinePrinted ==
    \E i \in 1..Len(stdout) : stdout[i].line = "translation_result"

ParsedCommandLine == entry = "main" /\ args.transcription_model \in EngineChoices

-----------------------------------------------------------------------------
(* C1: engine 'whisper_cpp', the transcription stage returned empty text   *)
(* (its process exited non-zero, or the file read was blank): the          *)
(* translation stage is never entered, the 'ollama' process is never       *)
(* started, no exception is raised and translate() returns "".             *)
C1_EmptyTranscriptionSkipsTranslation ==
    (TranscriptionReturned /\ text = <<>>) =>
        /\ self.transcription_model = "whisper_cpp"
        /\ pc \in {"check", "returned", "exited"}
        /\ llamaCalls = 0
        /\ ollama = NotSpawned
        /\ raised = NoException
        /\ (returned => result = <<>>)

C1_Witness ==
    /\ returned
    /\ whisper.state = "exited" /\ whisper.code = 1
    /\ ollama = NotSpawned
    /\ text = <<>> /\ result = <<>>
    /\ llamaCalls = 0

(* C2: the transcription stage returned non-empty text T: the translation  *)
(* stage is entered exactly once, and the command carries the prompt       *)
(* "Translate the following text to <lower-cased output language>: <T>".   *)
C2_TranslationInvokedOnceWithPrompt ==
    /\ llamaCalls <= 1
    /\ (llamaCalls = 1 => TranscriptionReturned /\ text # <<>>)
    /\ (TranscriptionReturned /\ text # <<>>) =>
          (pc \notin {"check", "translation"} =>
              /\ llamaCalls = 1
              /\ ollama.command =
                   <<"ollama", "run", "llama3",
                     <<"Translate the following text to ">>
                        \o Lower(args.output_language) \o <<": ">> \o text>>)

C2_Witness ==
    /\ returned
    /\ llamaCalls = 1
    /\ args.output_language = <<"R", "U">>
    /\ text = <<"O", "l", "d">>
    /\ ollama.command[4] =
         <<"Translate the following text to ", "r", "u", ": ", "O", "l", "d">>

(* C3: an engine identifier other than 'whisper_cpp': translate() raises   *)
(* ValueError, and neither external process is ever started.               *)
C3_UnknownEngineFailsFast ==
    args.transcription_model # "whisper_cpp" =>
        /\ NoProcessSpawned
        /\ ~returned
        /\ raised.type \in {"None", "ValueError"}
        /\ (self.constructed /\ pc # "translate" =>
               raised = Exception("ValueError", "translate"))

C3_Witness ==
    /\ args.transcription_model = "unknown_engine"
    /\ pc = "raised"
    /\ raised.type = "ValueError"
    /\ NoProcessSpawned

(* C4: a failure of an external process in either stage (non-zero exit or  *)
(* the executable cannot be started) leaves no exception and makes         *)
(* translate() return "".                                                  *)
C4_ProcessFailureRecovered ==
    (ProcessFailed(whisper) \/ ProcessFailed(ollama)) =>
        /\ raised = NoException
        /\ (returned => result = <<>>)

(* C5: whenever translate() has returned, elapsed_time was written exactly *)
(* once, to end time minus start time.                                     *)
C5_ElapsedWrittenOnce ==
    /\ elapsedWrites <= 1
    /\ returned => elapsedWrites = 1

(* C6: the transcription process exited zero and wrote its text file: the  *)
(* stage returns that file's trimmed contents.                             *)
C6_ReturnsEngineText ==
    (whisper.state = "exited" /\ whisper.code = 0 /\ whisper.wrote # <<>>
       /\ pc # "whisper_wait") =>
        /\ TranscriptionReturned
        /\ text = Strip(whisper.out)

(* C7 as stated: pre-recorded mode off: the run fails in the transcription *)
(* stage with NotImplementedError, before any process is started.          *)
C7_LiveCaptureAlwaysNotImplemented ==
    (self.constructed /\ ~self.pre_recorded) =>
        /\ NoProcessSpawned
        /\ ~returned
        /\ (pc \notin {"translate", "transcribe"} =>
               raised = Exception("NotImplementedError", "whisper_cpp_transcription"))

(* C7 amended: pre-recorded mode off and engine 'whisper_cpp' (every       *)
(* command line that passes parsing): the run fails in the transcription   *)
(* stage with NotImplementedError, before any process is started.          *)
C7_LiveCaptureNotImplemented ==
    (self.constructed /\ ~self.pre_recorded
       /\ self.transcription_model = "whisper_cpp") =>
        /\ NoProcessSpawned
        /\ ~returned
        /\ (pc \notin {"translate", "transcribe"} =>
               raised = Exception("NotImplementedError", "whisper_cpp_transcription"))

C7_Witness ==
    /\ entry = "main"
    /\ ~args.pre_recorded
    /\ pc = "exited"
    /\ raised.type = "NotImplementedError"
    /\ NoProcessSpawned

C9_MissingResultFilePropagates ==
    /\ reads <= 1
    /\ (whisper.state = "exited" /\ whisper.code = 0 /\ pc # "whisper_wait"
          /\ fs[ResultFile(self.filepath)].kind = "missing") =>
            /\ reads = 1
            /\ raised = Exception("FileNotFoundError", "open_result_file")
            /\ ~returned
            /\ ~TranscriptionReturned
            /\ llamaCalls = 0
            /\ ollama = NotSpawned

C9_Witness ==
    /\ pc = "raised"
    /\ whisper.state = "exited" /\ whisper.code = 0
    /\ whisper.wrote # <<>>
    /\ fs[ResultFile(self.filepath)].kind = "missing"
    /\ reads = 1

(* C10: no timeout, stages strictly in sequence: the translation process   *)
(* starts only after the transcription process has exited, at most one     *)
(* process runs at a time, the thread stays in subprocess.run while its    *)
(* child runs (so a finished run has no child left running), a child that  *)
(* never exits holds the run where it is forever, and if every child       *)
(* exits the run finishes.                                                 *)
C10_SequentialNoTimeout ==
    /\ [](~(Running(whisper) /\ Running(ollama)))
    /\ [](ollama.state # "notspawned" => whisper.state = "exited")
    /\ [](Running(whisper) => pc = "whisper_wait")
    /\ [](Running(ollama) => pc = "llama_wait")
    /\ [](TranslateFinished => ~Running(whisper) /\ ~Running(ollama))
    /\ [][Hung(whisper) \/ Hung(ollama) =>
            /\ pc' = pc
            /\ whisper' = whisper
            /\ ollama' = ollama
            /\ ~TranslateFinished']_vars
    /\ <>(Terminated \/ Hung(whisper) \/ Hung(ollama))

C10_Witness ==
    /\ whisper.state = "exited"
    /\ Hung(ollama)
    /\ pc = "llama_wait"
    /\ now = MaxTime

====
